---- MODULE Spec2Model ----
(***************************************************************************)
(* sickmath: storage-polymorphic vectors (SmallVector on an array,         *)
(* LargeVector on a Vec, the unified enum Vector over both), the           *)
(* MathVector kernels, the operator impls and Matrix::mult.                *)
(*                                                                         *)
(* The element type T is instantiated at i8, the type the crate's own      *)
(* tests use for signed data.  A run of the model is a sequence of library *)
(* calls on two vector registers a (self) and b (rhs), or on two matrix    *)
(* registers m1 and m2.  op names the last call, arg its inputs, res (or   *)
(* mres) what it returned, or that it panicked.                            *)
(*                                                                         *)
(* Spec: runs of constructors, kernels and operators on a and b.           *)
(* SpecMatrix: runs of Matrix::mult.  SpecKernel: runs of one kernel call, *)
(* tensor_prod included, on constructed a and b.  SpecCross: runs of cross *)
(* on 3-element vectors whose elements reach the minimum of T.             *)
(* SpecAccess: runs of one kernel call, one indexed access or an iteration *)
(* on a vector of arity 0 to 2.  SpecVariant: runs of the constructors at  *)
(* the arities around 5001.  SpecMatrixSum: runs of Matrix::add and        *)
(* Matrix::subtract.                                                       *)
(***************************************************************************)
EXTENDS Integers, Sequences, FiniteSets, TLC

VARIABLES
    N,       \* const generic N: the arity of the vectors, columns of m1
    checks,  \* build profile: TRUE when integer overflow panics (debug),
             \* FALSE when it wraps (release)
    a,       \* Vector<T, N>: self of the vector operations
    b,       \* Vector<T, N>: rhs of the vector operations
    op,      \* the last call
    arg,     \* its inputs other than a and b
    res,     \* its outcome
    muts,    \* in-place operations applied to a since it was constructed
    pc,      \* "a": a is to be constructed, "b": b is, "run": both are,
             \* "done": the run is over
    M,       \* const generic M: rows of m1
    P,       \* const generic P: columns of m2
    m1,      \* Matrix<T, M, N>
    m2,      \* Matrix<T, N, P>
    mres,    \* outcome of the last matrix call
    it       \* the iterator of the run: its cursor, its end and the
             \* items its next() has handed out

vars == <<N, checks, a, b, op, arg, res, muts, pc, M, P, m1, m2, mres, it>>
vecVars == <<N, checks, a, b, op, arg, res, muts, pc>>
matVars == <<M, P, m1, m2, mres>>

----------------------------------------------------------------------------
(* Bounds of the model *)

\* a Vec handed to a constructor holds between N - MaxExtra and N + MaxExtra items
MaxExtra == 1
\* in-place calls that end a run
MaxMuts == 1
\* largest matrix dimension
MaxDim == 2

\* arities N the vector runs are instantiated at
Arities == {2, 3}
\* element values handed to the vector constructors
Elem == {-100, 1}
\* element values handed to the matrix constructor
MElem == {1, 2}
\* scalar factors (isize) handed to scalar / scalar_mut
Factors == {-1, 0, 2, 200}

----------------------------------------------------------------------------
(* The element type T = i8 and its arithmetic *)

TBits == 8
TMin == -(2 ^ (TBits - 1))
TMax == (2 ^ (TBits - 1)) - 1
InT(x) == TMin <= x /\ x <= TMax
Wrap(x) == ((x - TMin) % (2 ^ TBits)) + TMin

Exact(opn, x, y) ==
    CASE opn = "add" -> x + y
      [] opn = "sub" -> x - y
      [] opn = "mul" -> x * y

\* x + y, x - y, x * y on T under the build profile c: on overflow the
\* operation panics when overflow checks are on and wraps when they are off
TOpIn(c, opn, x, y) ==
    LET e == Exact(opn, x, y)
    IN  [ok |-> InT(e) \/ ~c, v |-> Wrap(e)]

TOp(opn, x, y) == TOpIn(checks, opn, x, y)

\* FromPrimitive::from_isize(x) for T: None when x is not representable
from_isize(x) == [ok |-> InT(x), v |-> IF InT(x) THEN x ELSE 0]

\* ToPrimitive::to_isize(&acc): every value of T is an isize
to_isize(x) == [ok |-> TRUE, v |-> x]

Min(S) == CHOOSE x \in S : \A y \in S : x <= y

----------------------------------------------------------------------------
(* Values *)

Small(d) == [tag |-> "Small", data |-> d]
Large(d) == [tag |-> "Large", data |-> d]

Zeros(n) == [i \in 1..n |-> 0]

\* outcomes of a call
NoRes == [st |-> "none", tag |-> "", data |-> <<>>, val |-> 0, flag |-> FALSE]
Panic == [st |-> "panic", tag |-> "", data |-> <<>>, val |-> 0, flag |-> FALSE]
RetVec(v) == [st |-> "ok", tag |-> v.tag, data |-> v.data, val |-> 0, flag |-> FALSE]
RetInt(x) == [st |-> "ok", tag |-> "", data |-> <<>>, val |-> x, flag |-> FALSE]
RetBool(f) == [st |-> "ok", tag |-> "", data |-> <<>>, val |-> 0, flag |-> f]
RetUnit == [st |-> "ok", tag |-> "", data |-> <<>>, val |-> 0, flag |-> FALSE]

\* no iterator has been made
NoIter == [kind |-> "none", on |-> "", current |-> 0, end |-> 0, out |-> <<>>]

NoArg == [src |-> <<>>, factor |-> 0]
SrcArg(s) == [src |-> s, factor |-> 0]
FactorArg(k) == [src |-> <<>>, factor |-> k]

\* sequences of length n over S
SeqsOfLen(S, n) == [1..n -> S]

\* sequences of length n filled with one value of S
Uniform(S, n) == {[i \in 1..n |-> e] : e \in S}

\* the element sequences of length n that are handed to constructors: every
\* one at the arities of the kernel runs, the uniformly filled ones at the
\* arities around the threshold of new_random
Filled(n) == IF N \in Arities THEN SeqsOfLen(Elem, n) ELSE Uniform(Elem, n)

\* arrays [T; N]
Arrays == Filled(N)

\* Vec<T> values and the items an iterator yields: any length near N
Lens == {l \in (N - MaxExtra)..(N + MaxExtra) : l >= 0}
Vecs == UNION {Filled(l) : l \in Lens}

----------------------------------------------------------------------------
(* Conversions of the constructors *)

\* impl IntoArray<T, N> for [T; N]
IntoArray_Array(src) == [ok |-> TRUE, data |-> src]

IntoArray_Vec_Unchecked(src) == [ok |-> TRUE, data |-> src]

\* impl IntoArray<T, N> for Vec<T>: try_into, panics unless the length is N
IntoArray_Vec(src) == [ok |-> Len(src) = N, data |-> src]

\* impl IntoVec<T, N> for Vec<T>: the Vec itself, whatever its length
IntoVec_Vec(src) == src

\* impl IntoVec<T, N> for [T; N]: pushes the N items
IntoVec_Array(src) == [i \in 1..N |-> src[i]]

----------------------------------------------------------------------------
(* Constructors *)

\* SmallVector::new over a conversion outcome
SmallVector_new(conv) == conv

\* Vector::new(data: impl IntoArray)
Vector_new(conv) ==
    LET s == SmallVector_new(conv)
    IN  IF s.ok THEN RetVec(Small(s.data)) ELSE Panic

\* LargeVector::new(data: impl IntoVec)
LargeVector_new(vec) == vec

\* Vector::new_large(data: impl IntoVec)
Vector_new_large(vec) == RetVec(Large(LargeVector_new(vec)))

\* SmallVector::default / Vector::default
SmallVector_default == Zeros(N)
Vector_default == RetVec(Small(SmallVector_default))

\* LargeVector::default: Vec::with_capacity(N), which holds no element
LargeVector_default == <<>>

\* the threshold of Vector::new_random and of FromIterator for Vector
limit == 5001

\* SmallVector::new_random / LargeVector::new_random: N values of the source
SmallVector_new_random(rnd) == [i \in 1..N |-> rnd[i]]
LargeVector_new_random(rnd) == [i \in 1..N |-> rnd[i]]

Vector_new_random_Inclusive(rnd) ==
    IF N <= limit
    THEN RetVec(Small(SmallVector_new_random(rnd)))
    ELSE RetVec(Large(LargeVector_new_random(rnd)))

\* Vector::new_random
Vector_new_random(rnd) ==
    IF N < limit
    THEN RetVec(Small(SmallVector_new_random(rnd)))
    ELSE RetVec(Large(LargeVector_new_random(rnd)))

\* Vector::new_large_random
Vector_new_large_random(rnd) == RetVec(Large(LargeVector_new_random(rnd)))

\* impl FromIterator for LargeVector: pushes every item
LargeVector_from_iter(items) == items

\* impl FromIterator for Vector.  Below the limit the items are stored into
\* [T::default(); N] by index: the store of item number N + 1 is out of range
\* and panics, missing items stay T::default().  From the limit on, every
\* item is pushed to a Vec that LargeVector::new takes as it is.
Vector_from_iter(items) ==
    IF N < limit
    THEN IF Len(items) > N
         THEN Panic
         ELSE Vector_new(IntoArray_Array(
                  [i \in 1..N |-> IF i <= Len(items) THEN items[i] ELSE 0]))
    ELSE RetVec(Large(LargeVector_new(IntoVec_Vec(items))))

----------------------------------------------------------------------------
(* Constructor calls.  A run constructs a, then b, then calls operations  *)
(* that borrow them, then operations that change a in place.  A           *)
(* constructor that panics returns nothing and is called again.           *)

Bind(r, o, g) ==
    /\ pc \in {"a", "b"}
    /\ op' = o
    /\ arg' = g
    /\ res' = r
    /\ IF r.st = "ok"
       THEN /\ a' = IF pc = "a" THEN [tag |-> r.tag, data |-> r.data] ELSE a
            /\ b' = IF pc = "b" THEN [tag |-> r.tag, data |-> r.data] ELSE b
            /\ pc' = IF pc = "a" THEN "b" ELSE "run"
       ELSE UNCHANGED <<a, b, pc>>
    /\ UNCHANGED <<N, checks, muts>>
    /\ UNCHANGED matVars
    /\ UNCHANGED it

NewFromArray ==
    \E src \in Arrays :
        Bind(Vector_new(IntoArray_Array(src)), "new", SrcArg(src))

NewFromVec ==
    \E src \in Vecs :
        Bind(Vector_new(IntoArray_Vec(src)), "new", SrcArg(src))

NewLargeFromVec ==
    \E src \in Vecs :
        Bind(Vector_new_large(IntoVec_Vec(src)), "new_large", SrcArg(src))

NewLargeFromArray ==
    \E src \in Arrays :
        Bind(Vector_new_large(IntoVec_Array(src)), "new_large", SrcArg(src))

Default ==
    Bind(Vector_default, "default", NoArg)

LargeDefault ==
    Bind(RetVec(Large(LargeVector_default)), "large_default", NoArg)

NewRandom ==
    \E rnd \in Arrays :
        Bind(Vector_new_random(rnd), "new_random", NoArg)

NewLargeRandom ==
    \E rnd \in Arrays :
        Bind(Vector_new_large_random(rnd), "new_large_random", NoArg)

FromIter ==
    \E items \in Vecs :
        Bind(Vector_from_iter(items), "from_iter", SrcArg(items))

LargeFromIter ==
    \E items \in Vecs :
        Bind(RetVec(Large(LargeVector_from_iter(items))), "large_from_iter",
             SrcArg(items))

Construct ==
    \/ NewFromArray
    \/ NewFromVec
    \/ NewLargeFromVec
    \/ NewLargeFromArray
    \/ Default
    \/ LargeDefault
    \/ NewRandom
    \/ NewLargeRandom
    \/ FromIter
    \/ LargeFromIter

----------------------------------------------------------------------------
(* Indexing.  data[idx] on an array or a Vec, and so vector[idx] through     *)
(* Index for Vector, panics when idx is not below the number of elements     *)
(* held.  Indices are 0-based as in the source; sequences are 1-based.       *)

InRange(d, idx) == 0 <= idx /\ idx < Len(d)

Fail == [ok |-> FALSE, v |-> 0]

----------------------------------------------------------------------------
(* The elementwise loops of the kernels *)

\* iteration idx of a loop body  self.data[idx] opn rhs[idx]  panics
StepFails(opn, sd, r, idx) ==
    \/ ~InRange(sd, idx)
    \/ ~InRange(r.data, idx)
    \/ ~TOp(opn, sd[idx + 1], r.data[idx + 1]).ok

\* iterations a loop over 0..n-1 completes before it panics (n: it does not)
Completed(opn, sd, r, n) ==
    LET bad == {i \in 0..(n - 1) : StepFails(opn, sd, r, i)}
    IN  IF bad = {} THEN n ELSE Min(bad)

\* SmallVector: a fresh [T::default(); N] whose N slots are assigned in order
ArrayZip(opn, sd, r) ==
    LET k == Completed(opn, sd, r, N)
    IN  [ok |-> k = N,
         data |-> IF k = N
                  THEN [i \in 1..N |-> TOp(opn, sd[i], r.data[i]).v]
                  ELSE <<>>]

\* LargeVector: a fresh Vec that is pushed to for idx in 0..N
PushZip(opn, sd, r) ==
    LET k == Completed(opn, sd, r, N)
    IN  [ok |-> k = N,
         data |-> IF k = N
                  THEN [i \in 1..N |-> TOp(opn, sd[i], r.data[i]).v]
                  ELSE <<>>]

\* the in-place loops: every element self holds, in order; the elements
\* before a panic keep their new value
ZipMut(opn, sd, r) ==
    LET k == Completed(opn, sd, r, Len(sd))
    IN  [ok |-> k = Len(sd),
         data |-> [i \in 1..Len(sd) |->
                      IF i <= k THEN TOp(opn, sd[i], r.data[i]).v ELSE sd[i]]]

\* elements of sd a loop  num * c  multiplies before it panics
Scaled(sd, c) ==
    LET bad == {i \in 1..Len(sd) : ~TOp("mul", sd[i], c).ok}
    IN  IF bad = {} THEN Len(sd) ELSE Min(bad) - 1

ScaleAll(sd, c) == [i \in 1..Len(sd) |-> TOp("mul", sd[i], c).v]

ScaleSome(sd, c, k) ==
    [i \in 1..Len(sd) |-> IF i <= k THEN TOp("mul", sd[i], c).v ELSE sd[i]]

----------------------------------------------------------------------------
(* impl MathVector for SmallVector *)

SmallVector_scalar_Magnitude(sd, f) ==
    LET c == from_isize(IF f < 0 THEN -f ELSE f)
        done == c.ok /\ Scaled(sd, c.v) = Len(sd)
    IN  [ok |-> done, data |-> IF done THEN ScaleAll(sd, c.v) ELSE <<>>]

SmallVector_scalar(sd, f) ==
    LET c == from_isize(f)
        done == c.ok /\ Scaled(sd, c.v) = Len(sd)
    IN  [ok |-> done, data |-> IF done THEN ScaleAll(sd, c.v) ELSE <<>>]

SmallVector_scalar_mut(sd, f) ==
    LET c == from_isize(f)
    IN  IF ~c.ok
        THEN [ok |-> FALSE, data |-> sd]
        ELSE [ok |-> Scaled(sd, c.v) = Len(sd),
              data |-> ScaleSome(sd, c.v, Scaled(sd, c.v))]

RECURSIVE DotLoop(_, _, _, _)
\* acc += self.data[idx] * rhs[idx] for idx in 0..N, acc a T
DotLoop(sd, r, idx, acc) ==
    IF idx = N
    THEN [ok |-> TRUE, v |-> acc]
    ELSE IF ~InRange(sd, idx) \/ ~InRange(r.data, idx)
    THEN Fail
    ELSE LET p == TOp("mul", sd[idx + 1], r.data[idx + 1])
             s == TOp("add", acc, p.v)
         IN  IF p.ok /\ s.ok THEN DotLoop(sd, r, idx + 1, s.v) ELSE Fail

SmallVector_dot_Squared(sd, r) ==
    LET d == DotLoop(sd, [data |-> sd], 0, 0)
    IN  IF d.ok THEN to_isize(d.v) ELSE Fail

SmallVector_dot(sd, r) ==
    LET d == DotLoop(sd, r, 0, 0)
    IN  IF d.ok THEN to_isize(d.v) ELSE Fail

SmallVector_add_vector(sd, r) == ArrayZip("add", sd, r)
SmallVector_add_vector_mut(sd, r) == ZipMut("add", sd, r)
SmallVector_sub_vector_Adding(sd, r) == ArrayZip("add", sd, r)

SmallVector_sub_vector(sd, r) == ArrayZip("sub", sd, r)
SmallVector_sub_vector_mut(sd, r) == ZipMut("sub", sd, r)
SmallVector_entrywise_Adding(sd, r) == ArrayZip("add", sd, r)

SmallVector_entrywise(sd, r) == ArrayZip("mul", sd, r)
SmallVector_entrywise_mut(sd, r) == ZipMut("mul", sd, r)

\* d[i] * rhs[j] - d[k] * rhs[l]
CrossTerm(d, r, i, j, k, l) ==
    IF ~(InRange(d, i) /\ InRange(r.data, j) /\ InRange(d, k) /\ InRange(r.data, l))
    THEN Fail
    ELSE LET p == TOp("mul", d[i + 1], r.data[j + 1])
             q == TOp("mul", d[k + 1], r.data[l + 1])
             e == TOp("sub", p.v, q.v)
         IN  [ok |-> p.ok /\ q.ok /\ e.ok, v |-> e.v]

SmallVector_cross_Swapped(sd, r) ==
    IF N # 3
    THEN [ok |-> FALSE, data |-> <<>>]
    ELSE LET c0 == CrossTerm(sd, r, 1, 2, 2, 1)
             c1 == CrossTerm(sd, r, 0, 2, 2, 0)
             c2 == CrossTerm(sd, r, 0, 1, 1, 0)
             done == c0.ok /\ c1.ok /\ c2.ok
         IN  [ok |-> done, data |-> IF done THEN <<c0.v, c1.v, c2.v>> ELSE <<>>]

SmallVector_cross(sd, r) ==
    IF N # 3
    THEN [ok |-> FALSE, data |-> <<>>]
    ELSE LET c0 == CrossTerm(sd, r, 1, 2, 2, 1)
             c1 == CrossTerm(sd, r, 2, 0, 0, 2)
             c2 == CrossTerm(sd, r, 0, 1, 1, 0)
             done == c0.ok /\ c1.ok /\ c2.ok
         IN  [ok |-> done, data |-> IF done THEN <<c0.v, c1.v, c2.v>> ELSE <<>>]

\* the three stores of cross_mut, each computed from the clone of self.data
\* taken on entry; a store made before a panic stays
CrossStores(sd, r) ==
    LET c0 == CrossTerm(sd, r, 1, 2, 2, 1)
        c1 == CrossTerm(sd, r, 2, 0, 0, 2)
        c2 == CrossTerm(sd, r, 0, 1, 1, 0)
    IN  IF ~c0.ok THEN [ok |-> FALSE, data |-> sd]
        ELSE IF ~c1.ok THEN [ok |-> FALSE, data |-> [sd EXCEPT ![1] = c0.v]]
        ELSE IF ~c2.ok
        THEN [ok |-> FALSE, data |-> [sd EXCEPT ![1] = c0.v, ![2] = c1.v]]
        ELSE [ok |-> TRUE,
              data |-> [sd EXCEPT ![1] = c0.v, ![2] = c1.v, ![3] = c2.v]]

SmallVector_cross_mut_Silent(sd, r) ==
    IF N # 3 THEN [ok |-> TRUE, data |-> sd] ELSE CrossStores(sd, r)

SmallVector_cross_mut(sd, r) ==
    IF N # 3 THEN [ok |-> FALSE, data |-> sd] ELSE CrossStores(sd, r)

----------------------------------------------------------------------------
(* impl MathVector for LargeVector *)

\* from_isize(scalar).expect(..) is evaluated inside the loop, once for each
\* element held: with no element it is never evaluated
LargeVector_scalar(sd, f) ==
    LET c == from_isize(f)
        done == Len(sd) = 0 \/ (c.ok /\ Scaled(sd, c.v) = Len(sd))
    IN  [ok |-> done, data |-> IF done THEN ScaleAll(sd, c.v) ELSE <<>>]

LargeVector_scalar_mut(sd, f) ==
    LET c == from_isize(f)
    IN  IF Len(sd) = 0 THEN [ok |-> TRUE, data |-> sd]
        ELSE IF ~c.ok THEN [ok |-> FALSE, data |-> sd]
        ELSE [ok |-> Scaled(sd, c.v) = Len(sd),
              data |-> ScaleSome(sd, c.v, Scaled(sd, c.v))]

LargeVector_dot(sd, r) ==
    LET d == DotLoop(sd, r, 0, 0)
    IN  IF d.ok THEN to_isize(d.v) ELSE Fail

LargeVector_add_vector_Subtracting(sd, r) == PushZip("sub", sd, r)

LargeVector_add_vector(sd, r) == PushZip("add", sd, r)
LargeVector_add_vector_mut(sd, r) == ZipMut("add", sd, r)
LargeVector_sub_vector(sd, r) == PushZip("sub", sd, r)
LargeVector_sub_vector_mut(sd, r) == ZipMut("sub", sd, r)
LargeVector_entrywise(sd, r) == PushZip("mul", sd, r)
LargeVector_entrywise_mut(sd, r) == ZipMut("mul", sd, r)

LargeVector_cross(sd, r) ==
    IF N # 3
    THEN [ok |-> FALSE, data |-> <<>>]
    ELSE LET c0 == CrossTerm(sd, r, 1, 2, 2, 1)
             c1 == CrossTerm(sd, r, 2, 0, 0, 2)
             c2 == CrossTerm(sd, r, 0, 1, 1, 0)
             done == c0.ok /\ c1.ok /\ c2.ok
         IN  [ok |-> done, data |-> IF done THEN <<c0.v, c1.v, c2.v>> ELSE <<>>]

LargeVector_cross_mut(sd, r) ==
    IF N # 3 THEN [ok |-> FALSE, data |-> sd] ELSE CrossStores(sd, r)

----------------------------------------------------------------------------
(* impl MathVector for Vector: match on the variant of self, delegate to    *)
(* its kernel, wrap what it returns in the same variant                     *)

\* Vector::Small(..) / Vector::Large(..) around what a kernel returned
Rewrap(tag, r) ==
    IF r.ok THEN RetVec([tag |-> tag, data |-> r.data]) ELSE Panic

RetIsize(r) == IF r.ok THEN RetInt(r.v) ELSE Panic

Vector_scalar(v, f) ==
    IF v.tag = "Small"
    THEN Rewrap("Small", SmallVector_scalar(v.data, f))
    ELSE Rewrap("Large", LargeVector_scalar(v.data, f))

Vector_scalar_mut(v, f) ==
    IF v.tag = "Small"
    THEN SmallVector_scalar_mut(v.data, f)
    ELSE LargeVector_scalar_mut(v.data, f)

Vector_dot(v, r) ==
    IF v.tag = "Small"
    THEN RetIsize(SmallVector_dot(v.data, r))
    ELSE RetIsize(LargeVector_dot(v.data, r))

Vector_add_vector_Promoting(v, r) ==
    IF v.tag = "Small" /\ r.tag = "Small"
    THEN Rewrap("Small", SmallVector_add_vector(v.data, r))
    ELSE Rewrap("Large", LargeVector_add_vector(v.data, r))

Vector_add_vector(v, r) ==
    IF v.tag = "Small"
    THEN Rewrap("Small", SmallVector_add_vector(v.data, r))
    ELSE Rewrap("Large", LargeVector_add_vector(v.data, r))

Vector_add_vector_mut(v, r) ==
    IF v.tag = "Small"
    THEN SmallVector_add_vector_mut(v.data, r)
    ELSE LargeVector_add_vector_mut(v.data, r)

Vector_sub_vector(v, r) ==
    IF v.tag = "Small"
    THEN Rewrap("Small", SmallVector_sub_vector(v.data, r))
    ELSE Rewrap("Large", LargeVector_sub_vector(v.data, r))

Vector_sub_vector_mut(v, r) ==
    IF v.tag = "Small"
    THEN SmallVector_sub_vector_mut(v.data, r)
    ELSE LargeVector_sub_vector_mut(v.data, r)

Vector_entrywise(v, r) ==
    IF v.tag = "Small"
    THEN Rewrap("Small", SmallVector_entrywise(v.data, r))
    ELSE Rewrap("Large", LargeVector_entrywise(v.data, r))

Vector_entrywise_mut(v, r) ==
    IF v.tag = "Small"
    THEN SmallVector_entrywise_mut(v.data, r)
    ELSE LargeVector_entrywise_mut(v.data, r)

Vector_cross(v, r) ==
    IF v.tag = "Small"
    THEN Rewrap("Small", SmallVector_cross(v.data, r))
    ELSE Rewrap("Large", LargeVector_cross(v.data, r))

Vector_cross_mut(v, r) ==
    IF v.tag = "Small"
    THEN SmallVector_cross_mut(v.data, r)
    ELSE LargeVector_cross_mut(v.data, r)

----------------------------------------------------------------------------
(* impl Add, AddAssign, Sub, SubAssign, Mul, MulAssign for Vector *)

Vector_add(v, r) ==
    IF v.tag = "Small"
    THEN Rewrap("Small", SmallVector_add_vector(v.data, r))
    ELSE Rewrap("Large", LargeVector_add_vector(v.data, r))

Vector_add_assign(v, r) ==
    IF v.tag = "Small"
    THEN SmallVector_add_vector_mut(v.data, r)
    ELSE LargeVector_add_vector_mut(v.data, r)

\* the Large arm of sub calls add_vector
Vector_sub(v, r) ==
    IF v.tag = "Small"
    THEN Rewrap("Small", SmallVector_sub_vector(v.data, r))
    ELSE Rewrap("Large", LargeVector_add_vector(v.data, r))

\* the Large arm of sub_assign calls add_vector_mut
Vector_sub_assign(v, r) ==
    IF v.tag = "Small"
    THEN SmallVector_sub_vector_mut(v.data, r)
    ELSE LargeVector_add_vector_mut(v.data, r)

Vector_mul(v, r) ==
    IF v.tag = "Small"
    THEN Rewrap("Small", SmallVector_entrywise(v.data, r))
    ELSE Rewrap("Large", LargeVector_entrywise(v.data, r))

Vector_mul_assign(v, r) ==
    IF v.tag = "Small"
    THEN SmallVector_entrywise_mut(v.data, r)
    ELSE LargeVector_entrywise_mut(v.data, r)

----------------------------------------------------------------------------
(* impl PartialEq for Vector: for idx in 0..N, return false at the first    *)
(* self[idx] != other[idx]; an index beyond the elements held panics        *)

Vector_eq(x, y) ==
    LET stop == {i \in 0..(N - 1) :
                    \/ ~InRange(x.data, i)
                    \/ ~InRange(y.data, i)
                    \/ x.data[i + 1] # y.data[i + 1]}
    IN  IF stop = {} THEN RetBool(TRUE)
        ELSE IF InRange(x.data, Min(stop)) /\ InRange(y.data, Min(stop))
        THEN RetBool(FALSE)
        ELSE Panic

----------------------------------------------------------------------------
(* Calls on the constructed vectors *)

\* a call that borrows a and b and returns r; a run makes these calls before
\* its in-place calls
Call(o, g, r) ==
    /\ pc = "run"
    /\ muts = 0
    /\ op' = o
    /\ arg' = g
    /\ res' = r
    /\ UNCHANGED <<N, checks, a, b, muts, pc>>
    /\ UNCHANGED matVars
    /\ UNCHANGED it

\* a call that borrows a mutably and leaves r.data in it
CallMut(o, g, r) ==
    /\ pc = "run"
    /\ muts < MaxMuts
    /\ op' = o
    /\ arg' = g
    /\ res' = IF r.ok THEN RetUnit ELSE Panic
    /\ a' = [a EXCEPT !.data = r.data]
    /\ muts' = muts + 1
    /\ UNCHANGED <<N, checks, b, pc>>
    /\ UNCHANGED matVars
    /\ UNCHANGED it

Scalar == \E f \in Factors : Call("scalar", FactorArg(f), Vector_scalar(a, f))
ScalarMut ==
    \E f \in Factors : CallMut("scalar_mut", FactorArg(f), Vector_scalar_mut(a, f))
Dot == Call("dot", NoArg, Vector_dot(a, b))
AddVector == Call("add_vector", NoArg, Vector_add_vector(a, b))
AddVectorMut == CallMut("add_vector_mut", NoArg, Vector_add_vector_mut(a, b))
SubVector == Call("sub_vector", NoArg, Vector_sub_vector(a, b))
SubVectorMut == CallMut("sub_vector_mut", NoArg, Vector_sub_vector_mut(a, b))
Entrywise == Call("entrywise", NoArg, Vector_entrywise(a, b))
EntrywiseMut == CallMut("entrywise_mut", NoArg, Vector_entrywise_mut(a, b))
Cross == Call("cross", NoArg, Vector_cross(a, b))
CrossMut == CallMut("cross_mut", NoArg, Vector_cross_mut(a, b))

OpAdd == Call("add", NoArg, Vector_add(a, b))
OpAddAssign == CallMut("add_assign", NoArg, Vector_add_assign(a, b))
OpSub == Call("sub", NoArg, Vector_sub(a, b))
OpSubAssign == CallMut("sub_assign", NoArg, Vector_sub_assign(a, b))
OpMul == Call("mul", NoArg, Vector_mul(a, b))
OpMulAssign == CallMut("mul_assign", NoArg, Vector_mul_assign(a, b))

Eq == Call("eq", NoArg, Vector_eq(a, b))

Kernel ==
    \/ Scalar
    \/ ScalarMut
    \/ Dot
    \/ AddVector
    \/ AddVectorMut
    \/ SubVector
    \/ SubVectorMut
    \/ Entrywise
    \/ EntrywiseMut
    \/ Cross
    \/ CrossMut

Operators ==
    \/ OpAdd
    \/ OpAddAssign
    \/ OpSub
    \/ OpSubAssign
    \/ OpMul
    \/ OpMulAssign
    \/ Eq

----------------------------------------------------------------------------
(* Matrix<T, M, N>: inner: [Vector<T, N>; M], a sequence of M rows *)

\* element values handed to Matrix::new, as M rows of n values
MatrixSources(m, n) == SeqsOfLen(SeqsOfLen(MElem, n), m)

\* Matrix::new from a 2D literal: each row through Vector::new
Matrix_new(rows) == [i \in 1..Len(rows) |-> Small(rows[i])]

\* Matrix::transpose of an n x p matrix: p rows of n elements
Matrix_transpose(y, n, p) ==
    [c \in 1..p |-> Small([k \in 1..n |-> y[k].data[c]])]

\* the regime threshold of Matrix::mult
Threshold == 300 * 800

\* what a read of the unsafe { std::mem::zeroed() } buffer of rows finds: the
\* all-zero bit pattern of the enum Vector is the Small variant over zeroed
\* elements under one enum layout and the Large variant over a Vec of no
\* element under another; a store into a row of the second panics
ZeroedRows == {"Small", "Large"}

RECURSIVE DirectAcc(_, _, _, _, _, _)
\* acc += self[row][index] * matrix2[index][col] for index in 0..P
DirectAcc(x, y, row, col, index, acc) ==
    IF index = P
    THEN [ok |-> TRUE, v |-> acc]
    ELSE IF \/ ~InRange(x[row + 1].data, index)
            \/ ~InRange(y, index)
            \/ ~InRange(y[index + 1].data, col)
    THEN Fail
    ELSE LET p == TOp("mul", x[row + 1].data[index + 1], y[index + 1].data[col + 1])
             s == TOp("add", acc, p.v)
         IN  IF p.ok /\ s.ok THEN DirectAcc(x, y, row, col, index + 1, s.v) ELSE Fail

\* the branch P * M < 300 * 800: for row in 0..M, for col in 0..P
MultDirect(x, y) ==
    LET e == [r \in 0..(M - 1) |-> [c \in 0..(P - 1) |-> DirectAcc(x, y, r, c, 0, 0)]]
        done == \A r \in 0..(M - 1) : \A c \in 0..(P - 1) : e[r][c].ok
    IN  [ok |-> done,
         rows |-> IF done
                  THEN [r \in 1..M |-> Small([c \in 1..P |-> e[r - 1][c - 1].v])]
                  ELSE <<>>]

\* the other branch: each row of self dot each row of matrix2.transpose(),
\* the isize converted back to T
MultTranspose(x, y) ==
    LET t == Matrix_transpose(y, N, P)
        d == [r \in 1..M |-> [c \in 1..P |-> Vector_dot(x[r], t[c])]]
        e == [r \in 1..M |-> [c \in 1..P |->
                 IF d[r][c].st = "ok" THEN from_isize(d[r][c].val) ELSE Fail]]
        done == \A r \in 1..M : \A c \in 1..P : e[r][c].ok
    IN  [ok |-> done,
         rows |-> IF done
                  THEN [r \in 1..M |-> Small([c \in 1..P |-> e[r][c].v])]
                  ELSE <<>>]

NoRows == [st |-> "none", rows |-> <<>>]
PanicRows == [st |-> "panic", rows |-> <<>>]
RetRows(r) == IF r.ok THEN [st |-> "ok", rows |-> r.rows] ELSE PanicRows

\* Matrix::mult; z: the variant the zeroed rows are read as
Matrix_mult(x, y, z) ==
    IF z = "Large" /\ M > 0 /\ P > 0
    THEN PanicRows
    ELSE IF P * M < Threshold
    THEN RetRows(MultDirect(x, y))
    ELSE RetRows(MultTranspose(x, y))

----------------------------------------------------------------------------
(* Matrix calls: a run constructs m1, then m2, then multiplies *)

NewMatrix1 ==
    /\ pc = "m1"
    /\ \E rows \in MatrixSources(M, N) : m1' = Matrix_new(rows)
    /\ pc' = "m2"
    /\ UNCHANGED <<N, checks, a, b, op, arg, res, muts, M, P, m2, mres, it>>

NewMatrix2 ==
    /\ pc = "m2"
    /\ \E rows \in MatrixSources(N, P) : m2' = Matrix_new(rows)
    /\ pc' = "mrun"
    /\ UNCHANGED <<N, checks, a, b, op, arg, res, muts, M, P, m1, mres, it>>

Mult ==
    /\ pc = "mrun"
    /\ \E z \in ZeroedRows : mres' = Matrix_mult(m1, m2, z)
    /\ op' = "mult"
    /\ UNCHANGED <<N, checks, a, b, arg, res, muts, pc, M, P, m1, m2, it>>

----------------------------------------------------------------------------
InitVec ==
    /\ N \in Arities
    /\ checks \in BOOLEAN
    /\ a = Small(Zeros(N))
    /\ b = Small(Zeros(N))
    /\ op = "none"
    /\ arg = NoArg
    /\ res = NoRes
    /\ muts = 0
    /\ pc = "a"
    /\ it = NoIter

NoMatrix ==
    /\ M = 1
    /\ P = 1
    /\ m1 = <<>>
    /\ m2 = <<>>
    /\ mres = NoRows

Dims == 1..MaxDim

InitMatrix ==
    /\ M \in Dims
    /\ N \in Dims
    /\ P \in Dims
    /\ checks \in BOOLEAN
    /\ m1 = <<>>
    /\ m2 = <<>>
    /\ mres = NoRows
    /\ a = Small(Zeros(N))
    /\ b = Small(Zeros(N))
    /\ op = "none"
    /\ arg = NoArg
    /\ res = NoRes
    /\ muts = 0
    /\ pc = "m1"
    /\ it = NoIter

NextMatrix == NewMatrix1 \/ NewMatrix2 \/ Mult

SpecMatrix == InitMatrix /\ [][NextMatrix]_vars

Init == InitVec /\ NoMatrix

Next == Construct \/ Kernel \/ Operators

Spec == Init /\ [][Next]_vars

----------------------------------------------------------------------------
(* tensor_prod<M>: a Matrix<T, M, N> whose cell [row][col] is assigned       *)
(* self.data[row] * rhs[col], for every row of the matrix and every column   *)
(* of the row                                                                *)

\* Matrix::default(): m zero-filled rows
Matrix_default(m) == [i \in 1..m |-> Small(Zeros(N))]

\* one cell: the two reads are bounds-checked, the product is a T
TensorCell(sd, r, row, col) ==
    IF ~InRange(sd, row) \/ ~InRange(r.data, col)
    THEN Fail
    ELSE TOp("mul", sd[row + 1], r.data[col + 1])

\* the double loop over the rows of the matrix mx and the N cells of each
TensorLoop(sd, r, mx) ==
    LET m == Len(mx)
        done == \A i \in 0..(m - 1) : \A j \in 0..(N - 1) : TensorCell(sd, r, i, j).ok
    IN  [ok |-> done,
         rows |-> IF done
                  THEN [i \in 1..m |->
                           [mx[i] EXCEPT !.data =
                               [j \in 1..N |-> TensorCell(sd, r, i - 1, j - 1).v]]]
                  ELSE <<>>]

\* the loop of the transposed product, rhs[row] * self.data[col]
SmallVector_tensor_prod_Transposed(sd, r, m) ==
    TensorLoop(r.data, [data |-> sd], Matrix_new([i \in 1..m |-> Zeros(N)]))

\* over Matrix::new([[T::default(); N]; M])
SmallVector_tensor_prod(sd, r, m) ==
    TensorLoop(sd, r, Matrix_new([i \in 1..m |-> Zeros(N)]))

\* over Matrix::default()
LargeVector_tensor_prod(sd, r, m) ==
    TensorLoop(sd, r, Matrix_default(m))

Vector_tensor_prod(v, r, m) ==
    IF v.tag = "Small"
    THEN RetRows(SmallVector_tensor_prod(v.data, r, m))
    ELSE RetRows(LargeVector_tensor_prod(v.data, r, m))

----------------------------------------------------------------------------
(* Calls of the kernel laws.  A run constructs a, then b, then makes one     *)
(* call on them.  An in-place kernel is called on a clone of a,              *)
(* x' = x.clone(); x'.op_mut(y), and res holds the clone as the call leaves  *)
(* it, whether it returned or panicked.                                      *)

\* scalar factors of the kernel laws: zero, one, one that overflows the
\* elements, one that is no value of T
LawFactors == {0, 1, 2, 200}

\* row counts M handed to tensor_prod
RowCounts == 1..(MaxDim + 1)

\* the vector a call returned
AsVector(r) == [tag |-> r.tag, data |-> r.data]

\* the clone after an in-place kernel with outcome r
CloneAfter(v, r) ==
    [st |-> IF r.ok THEN "ok" ELSE "panic",
     tag |-> v.tag, data |-> r.data, val |-> 0, flag |-> FALSE]

\* the one call of a run, which borrows a and b and returns r
LawCall(o, g, r) ==
    /\ pc = "run"
    /\ op' = o
    /\ arg' = g
    /\ res' = r
    /\ pc' = "done"
    /\ UNCHANGED <<N, checks, a, b, muts>>
    /\ UNCHANGED matVars
    /\ UNCHANGED it

CallOnClone(o, g, r) == LawCall(o, g, CloneAfter(a, r))

\* a.add_vector(b).sub_vector(b)
AddSubRoundTrip(x, y) ==
    LET s == Vector_add_vector(x, y)
    IN  IF s.st = "ok" THEN Vector_sub_vector(AsVector(s), y) ELSE Panic

LawScalar ==
    \E f \in LawFactors : LawCall("scalar", FactorArg(f), Vector_scalar(a, f))
LawScalarMut ==
    \E f \in LawFactors :
        CallOnClone("scalar_mut", FactorArg(f), Vector_scalar_mut(a, f))
LawDot == LawCall("dot", NoArg, Vector_dot(a, b))
LawAddVector == LawCall("add_vector", NoArg, Vector_add_vector(a, b))
LawAddVectorMut == CallOnClone("add_vector_mut", NoArg, Vector_add_vector_mut(a, b))
LawSubVector == LawCall("sub_vector", NoArg, Vector_sub_vector(a, b))
LawSubVectorMut == CallOnClone("sub_vector_mut", NoArg, Vector_sub_vector_mut(a, b))
LawEntrywise == LawCall("entrywise", NoArg, Vector_entrywise(a, b))
LawEntrywiseMut == CallOnClone("entrywise_mut", NoArg, Vector_entrywise_mut(a, b))
LawCross == LawCall("cross", NoArg, Vector_cross(a, b))
LawCrossMut == CallOnClone("cross_mut", NoArg, Vector_cross_mut(a, b))
LawAddThenSub == LawCall("add_then_sub", NoArg, AddSubRoundTrip(a, b))

LawTensorProd ==
    /\ pc = "run"
    /\ \E m \in RowCounts :
          /\ M' = m
          /\ mres' = Vector_tensor_prod(a, b, m)
    /\ op' = "tensor_prod"
    /\ arg' = NoArg
    /\ res' = NoRes
    /\ pc' = "done"
    /\ UNCHANGED <<N, checks, a, b, muts, P, m1, m2, it>>

Laws ==
    \/ LawScalar
    \/ LawScalarMut
    \/ LawDot
    \/ LawAddVector
    \/ LawAddVectorMut
    \/ LawSubVector
    \/ LawSubVectorMut
    \/ LawEntrywise
    \/ LawEntrywiseMut
    \/ LawCross
    \/ LawCrossMut
    \/ LawAddThenSub
    \/ LawTensorProd

NextKernel == Construct \/ Laws

SpecKernel == Init /\ [][NextKernel]_vars

----------------------------------------------------------------------------
(* The cross product on 3-element vectors whose elements reach the minimum   *)
(* of T: a and b are drawn as constructed, one call is made on them          *)

\* element values of the operands of the cross product
CrossElem == {TMin, 0, 1}

\* Vector::new([x, y, z]) and Vector::new_large(vec![x, y, z])
CrossOperands ==
    {Small(d) : d \in SeqsOfLen(CrossElem, 3)} \cup
    {Large(d) : d \in SeqsOfLen(CrossElem, 3)}

\* b.cross(a).scalar(-1)
CrossNegated(x, y) ==
    LET c == Vector_cross(y, x)
    IN  IF c.st = "ok" THEN Vector_scalar(AsVector(c), -1) ELSE Panic

LawCrossNegated == LawCall("cross_negated", NoArg, CrossNegated(a, b))

InitCross ==
    /\ N = 3
    /\ checks \in BOOLEAN
    /\ a \in CrossOperands
    /\ b \in CrossOperands
    /\ op = "none"
    /\ arg = NoArg
    /\ res = NoRes
    /\ muts = 0
    /\ pc = "run"
    /\ it = NoIter
    /\ NoMatrix

NextCross == LawCross \/ LawCrossNegated

SpecCross == InitCross /\ [][NextCross]_vars
----------------------------------------------------------------------------
(* magnitude and sum: an accumulator of type T over the elements, converted *)
(* to usize / isize once the loop is over                                    *)

\* ToPrimitive::to_usize(&acc): None when acc is negative
to_usize(x) == [ok |-> x >= 0, v |-> IF x >= 0 THEN x ELSE 0]

\* usize::sqrt of num-integer's Roots: the floor of the square root
sqrt(n) == CHOOSE m \in 0..n : m * m <= n /\ n < (m + 1) * (m + 1)

RECURSIVE SquaresLoop(_, _, _, _)
\* acc += *num * *num for the items of an iterator that yields d[idx] for
\* idx in 0..n and panics on an index d does not hold
SquaresLoop(d, n, idx, acc) ==
    IF idx = n
    THEN [ok |-> TRUE, v |-> acc]
    ELSE IF ~InRange(d, idx)
    THEN Fail
    ELSE LET p == TOp("mul", d[idx + 1], d[idx + 1])
             s == TOp("add", acc, p.v)
         IN  IF p.ok /\ s.ok THEN SquaresLoop(d, n, idx + 1, s.v) ELSE Fail

RECURSIVE SumLoop(_, _, _, _)
\* acc += *num for the items of the same iterator
SumLoop(d, n, idx, acc) ==
    IF idx = n
    THEN [ok |-> TRUE, v |-> acc]
    ELSE IF ~InRange(d, idx)
    THEN Fail
    ELSE LET s == TOp("add", acc, d[idx + 1])
         IN  IF s.ok THEN SumLoop(d, n, idx + 1, s.v) ELSE Fail

\* the usize a magnitude returns for the accumulator outcome q
Rooted(q) ==
    IF q.ok /\ to_usize(q.v).ok
    THEN [ok |-> TRUE, v |-> sqrt(to_usize(q.v).v)]
    ELSE Fail

SmallVector_magnitude_Unrooted(sd) ==
    LET q == SquaresLoop(sd, Len(sd), 0, 0)
    IN  IF q.ok THEN to_usize(q.v) ELSE Fail

\* SmallVector::magnitude: self.iter() is the iterator of the array, which
\* yields the N elements
SmallVector_magnitude(sd) == Rooted(SquaresLoop(sd, Len(sd), 0, 0))

\* LargeVector::magnitude: self.iter() is LargeVector::iter, whose next()
\* reads self.data[current] for current in 0..N
LargeVector_magnitude(sd) == Rooted(SquaresLoop(sd, N, 0, 0))

SmallVector_sum(sd) ==
    LET q == SumLoop(sd, Len(sd), 0, 0)
    IN  IF q.ok THEN to_isize(q.v) ELSE Fail

LargeVector_sum(sd) ==
    LET q == SumLoop(sd, N, 0, 0)
    IN  IF q.ok THEN to_isize(q.v) ELSE Fail

Vector_magnitude(v) ==
    IF v.tag = "Small"
    THEN RetIsize(SmallVector_magnitude(v.data))
    ELSE RetIsize(LargeVector_magnitude(v.data))

Vector_sum(v) ==
    IF v.tag = "Small"
    THEN RetIsize(SmallVector_sum(v.data))
    ELSE RetIsize(LargeVector_sum(v.data))

LawMagnitude == LawCall("magnitude", NoArg, Vector_magnitude(a))
LawSum == LawCall("sum", NoArg, Vector_sum(a))

----------------------------------------------------------------------------
(* Index and IndexMut: vector[idx] reads, vector[idx] = x stores, and both   *)
(* go to self.data[idx] of the array or of the Vec                           *)

SmallVector_index(sd, idx) ==
    IF InRange(sd, idx) THEN [ok |-> TRUE, v |-> sd[idx + 1]] ELSE Fail

LargeVector_index(sd, idx) ==
    IF InRange(sd, idx) THEN [ok |-> TRUE, v |-> sd[idx + 1]] ELSE Fail

SmallVector_index_mut(sd, idx, x) ==
    IF InRange(sd, idx)
    THEN [ok |-> TRUE, data |-> [sd EXCEPT ![idx + 1] = x]]
    ELSE [ok |-> FALSE, data |-> sd]

LargeVector_index_mut(sd, idx, x) ==
    IF InRange(sd, idx)
    THEN [ok |-> TRUE, data |-> [sd EXCEPT ![idx + 1] = x]]
    ELSE [ok |-> FALSE, data |-> sd]

Vector_index(v, idx) ==
    IF v.tag = "Small"
    THEN RetIsize(SmallVector_index(v.data, idx))
    ELSE RetIsize(LargeVector_index(v.data, idx))

Vector_index_mut(v, idx, x) ==
    IF v.tag = "Small"
    THEN SmallVector_index_mut(v.data, idx, x)
    ELSE LargeVector_index_mut(v.data, idx, x)

----------------------------------------------------------------------------
(* Iterators.  into_iter, iter and iter_mut of Vector and of LargeVector     *)
(* make a cursor { data, current: 0, end: N }; next() returns None at      *)
(* current == end and otherwise advances current and hands out the element   *)
(* at the index current had.  it.out lists the indices handed out.           *)

RetSome(x) == [st |-> "ok", tag |-> "Some", data |-> <<>>, val |-> x, flag |-> FALSE]
RetNone == [st |-> "ok", tag |-> "None", data |-> <<>>, val |-> 0, flag |-> FALSE]

\* IntoIter / Iter / IterMut { data: self, current: 0, end: N }
NewIter(kind, on) ==
    [kind |-> kind, on |-> on, current |-> 0, end |-> N, out |-> <<>>]

\* values of T a read of memory that holds no element is represented by
InvalidReads == {TMin, 0, TMax}

\* what a read through a reference to no element of the Vec may find: any
\* value of the element type, or a fault
Dangling == {RetSome(e) : e \in InvalidReads} \cup {Panic}

\* next() of IntoIter and of Iter: the element is read by data[current],
\* which panics on an index data does not hold
CheckedNext(i, d) ==
    IF i.current = i.end
    THEN {[it |-> i, res |-> RetNone]}
    ELSE LET c == i.current
         IN  IF InRange(d, c)
             THEN {[it |-> [i EXCEPT !.current = c + 1, !.out = Append(@, c)],
                    res |-> RetSome(d[c + 1])]}
             ELSE {[it |-> [i EXCEPT !.current = c + 1], res |-> Panic]}

\* next() of IterMut: the element is reached by data.as_mut_ptr().add(current)
\* with no check; a reference to an index data does not hold is undefined
UncheckedNext(i, d) ==
    IF i.current = i.end
    THEN {[it |-> i, res |-> RetNone]}
    ELSE LET c == i.current
             j == [i EXCEPT !.current = c + 1, !.out = Append(@, c)]
         IN  IF InRange(d, c)
             THEN {[it |-> j, res |-> RetSome(d[c + 1])]}
             ELSE {[it |-> j, res |-> r] : r \in Dangling}

Vector_IntoIter_next(i, v) == CheckedNext(i, v.data)
Vector_Iter_next(i, v) == CheckedNext(i, v.data)
Vector_IterMut_next(i, v) == UncheckedNext(i, v.data)
LargeVector_IntoIter_next(i, sd) == CheckedNext(i, sd)
LargeVector_Iter_next(i, sd) == CheckedNext(i, sd)
LargeVector_IterMut_next(i, sd) == UncheckedNext(i, sd)

\* next() of the iterator i over v
NextOf(i, v) ==
    CASE i.on = "Vector" /\ i.kind = "into_iter" -> Vector_IntoIter_next(i, v)
      [] i.on = "Vector" /\ i.kind = "iter" -> Vector_Iter_next(i, v)
      [] i.on = "Vector" /\ i.kind = "iter_mut" -> Vector_IterMut_next(i, v)
      [] i.on = "LargeVector" /\ i.kind = "into_iter" ->
            LargeVector_IntoIter_next(i, v.data)
      [] i.on = "LargeVector" /\ i.kind = "iter" -> LargeVector_Iter_next(i, v.data)
      [] i.on = "LargeVector" /\ i.kind = "iter_mut" ->
            LargeVector_IterMut_next(i, v.data)

----------------------------------------------------------------------------
(* Runs on one vector: a and b are drawn as constructed, for arities from 0 *)
(* and elements whose squares and sums leave T; then one kernel call,       *)
(* one indexed access, or an iteration is made                              *)

\* arities of the vectors of these runs
AccessArities == 0..2

\* element values: 2 * 2 + 2 * 2 fits T, 8 * 8 + 8 * 8 is TMax + 1,
\* -100 * -100 is beyond T
AccessElem == {-100, 2, 8}

\* Vector::new([..]), Vector::new_large(vec![..]) and LargeVector::default()
AccessSelves ==
    {AsVector(Vector_new(IntoArray_Array(d))) : d \in SeqsOfLen(AccessElem, N)}
    \cup {AsVector(Vector_new_large(IntoVec_Vec(d))) :
             d \in UNION {SeqsOfLen(AccessElem, l) : l \in Lens}}
    \cup {Large(LargeVector_default)}

\* Vector::new([..])
AccessRights ==
    {AsVector(Vector_new(IntoArray_Array(d))) : d \in SeqsOfLen(AccessElem, N)}

\* indices handed to Index and IndexMut
Indices == 0..(N + MaxExtra)

IndexArg(idx) == [src |-> <<>>, factor |-> idx]
StoreArg(idx, x) == [src |-> <<x>>, factor |-> idx]

\* a[idx]
IndexRead ==
    \E idx \in Indices : LawCall("index", IndexArg(idx), Vector_index(a, idx))

\* x' = a.clone(); x'[idx] = x
IndexStore ==
    \E idx \in Indices : \E x \in AccessElem :
        CallOnClone("index_mut", StoreArg(idx, x), Vector_index_mut(a, idx, x))

\* a.into_iter(), a.iter(), a.iter_mut(), on the Vector or on the
\* LargeVector inside it; a run may make a new iterator at any time
MakeIter(kind, on) ==
    /\ pc \in {"run", "iter"}
    /\ on = "LargeVector" => a.tag = "Large"
    /\ it' = NewIter(kind, on)
    /\ op' = kind
    /\ arg' = NoArg
    /\ res' = NoRes
    /\ pc' = "iter"
    /\ UNCHANGED <<N, checks, a, b, muts>>
    /\ UNCHANGED matVars

VectorIntoIter == MakeIter("into_iter", "Vector")
VectorIter == MakeIter("iter", "Vector")
VectorIterMut == MakeIter("iter_mut", "Vector")
LargeIntoIter == MakeIter("into_iter", "LargeVector")
LargeIter == MakeIter("iter", "LargeVector")
LargeIterMut == MakeIter("iter_mut", "LargeVector")

\* it.next(); a panic ends the run
IterNext ==
    /\ pc = "iter"
    /\ \E o \in NextOf(it, a) :
          /\ it' = o.it
          /\ res' = o.res
          /\ pc' = IF o.res.st = "panic" THEN "done" ELSE "iter"
    /\ op' = "next"
    /\ arg' = NoArg
    /\ UNCHANGED <<N, checks, a, b, muts>>
    /\ UNCHANGED matVars

Iteration ==
    \/ VectorIntoIter
    \/ VectorIter
    \/ VectorIterMut
    \/ LargeIntoIter
    \/ LargeIter
    \/ LargeIterMut
    \/ IterNext

InitAccess ==
    /\ N \in AccessArities
    /\ checks \in BOOLEAN
    /\ a \in AccessSelves
    /\ b \in AccessRights
    /\ op = "none"
    /\ arg = NoArg
    /\ res = NoRes
    /\ muts = 0
    /\ pc = "run"
    /\ it = NoIter
    /\ NoMatrix

NextAccess ==
    \/ Laws
    \/ LawMagnitude
    \/ LawSum
    \/ IndexRead
    \/ IndexStore
    \/ Iteration

SpecAccess == InitAccess /\ [][NextAccess]_vars

----------------------------------------------------------------------------
(* Runs of the constructors at the arities around the threshold at which   *)
(* Vector::new_random changes the variant: a is Vector::default(), b is   *)
(* constructed by one call                                                  *)

VariantArities == {limit - 2, limit - 1, limit, limit + 1}

InitVariant ==
    /\ N \in VariantArities
    /\ checks \in BOOLEAN
    /\ a = Small(Zeros(N))
    /\ b = Small(Zeros(N))
    /\ op = "none"
    /\ arg = NoArg
    /\ res = NoRes
    /\ muts = 0
    /\ pc = "b"
    /\ it = NoIter
    /\ NoMatrix

SpecVariant == InitVariant /\ [][Construct]_vars

----------------------------------------------------------------------------
(* Matrix::add and Matrix::subtract on two M x N matrices.  The result rows *)
(* start as the zeroed buffer of mult; the rows of self are visited in      *)
(* order, the N items of each row in order, and cell [idx_row][idx_col] is  *)
(* assigned *num + matrix2[idx_row][idx_col], or *num - ..                  *)

\* the double loop of add and subtract
MatrixZip(opn, x, y) ==
    LET cell(r, c) ==
            IF \/ ~InRange(x[r].data, c - 1)
               \/ ~InRange(y, r - 1)
               \/ ~InRange(y[r].data, c - 1)
            THEN Fail
            ELSE TOp(opn, x[r].data[c], y[r].data[c])
        done == \A r \in 1..Len(x) : \A c \in 1..N : cell(r, c).ok
    IN  [ok |-> done,
         rows |-> IF done
                  THEN [r \in 1..Len(x) |-> Small([c \in 1..N |-> cell(r, c).v])]
                  ELSE <<>>]

Matrix_add_Subtracting(x, y, z) ==
    IF z = "Large" /\ M > 0 /\ N > 0
    THEN PanicRows
    ELSE RetRows(MatrixZip("sub", x, y))

\* Matrix::add; z: the variant the zeroed rows are read as
Matrix_add(x, y, z) ==
    IF z = "Large" /\ M > 0 /\ N > 0
    THEN PanicRows
    ELSE RetRows(MatrixZip("add", x, y))

\* Matrix::subtract
Matrix_subtract(x, y, z) ==
    IF z = "Large" /\ M > 0 /\ N > 0
    THEN PanicRows
    ELSE RetRows(MatrixZip("sub", x, y))

\* the second operand of add and subtract: a Matrix<T, M, N>
NewAddend ==
    /\ pc = "m2"
    /\ \E rows \in MatrixSources(M, N) : m2' = Matrix_new(rows)
    /\ pc' = "mrun"
    /\ UNCHANGED <<N, checks, a, b, op, arg, res, muts, M, P, m1, mres, it>>

Add ==
    /\ pc = "mrun"
    /\ \E z \in ZeroedRows : mres' = Matrix_add(m1, m2, z)
    /\ op' = "matrix_add"
    /\ UNCHANGED <<N, checks, a, b, arg, res, muts, pc, M, P, m1, m2, it>>

Subtract ==
    /\ pc = "mrun"
    /\ \E z \in ZeroedRows : mres' = Matrix_subtract(m1, m2, z)
    /\ op' = "matrix_subtract"
    /\ UNCHANGED <<N, checks, a, b, arg, res, muts, pc, M, P, m1, m2, it>>

\* row counts of the operands of add and subtract
SumRows == {1, 2}

InitMatrixSum ==
    /\ M \in SumRows
    /\ N \in Dims
    /\ P = N
    /\ checks \in BOOLEAN
    /\ m1 = <<>>
    /\ m2 = <<>>
    /\ mres = NoRows
    /\ a = Small(Zeros(N))
    /\ b = Small(Zeros(N))
    /\ op = "none"
    /\ arg = NoArg
    /\ res = NoRes
    /\ muts = 0
    /\ pc = "m1"
    /\ it = NoIter

NextMatrixSum == NewMatrix1 \/ NewAddend \/ Add \/ Subtract

SpecMatrixSum == InitMatrixSum /\ [][NextMatrixSum]_vars

----------------------------------------------------------------------------
(* Properties *)

ReturningOps ==
    {"scalar", "add_vector", "sub_vector", "entrywise", "cross", "add", "sub", "mul"}

InPlaceOps ==
    {"scalar_mut", "add_vector_mut", "sub_vector_mut", "entrywise_mut", "cross_mut",
     "add_assign", "sub_assign", "mul_assign"}

RECURSIVE SumProducts(_, _, _, _, _)
\* the sum over k in 1..n of x[r][k] * y[k][c], in the integers
SumProducts(x, y, r, c, n) ==
    IF n = 0 THEN 0
    ELSE SumProducts(x, y, r, c, n - 1) + x[r].data[n] * y[n].data[c]

\* C1: whenever A.mult(B) returns, for A of M x N and B of N x P, element
\* [r][c] of what it returns is the sum over k in 0..N-1 of A[r][k] * B[k][c].
C1_MultIsStandardProduct ==
    (op = "mult" /\ mres.st = "ok") =>
        /\ Len(mres.rows) = M
        /\ \A r \in 1..M :
              /\ Len(mres.rows[r].data) = P
              /\ \A c \in 1..P :
                    mres.rows[r].data[c] = SumProducts(m1, m2, r, c, N)

\* C2: on the operands of a mult call, the direct triple loop and the
\* transpose-then-dot branch give the same outcome.
C2_RegimesAgree ==
    op = "mult" => MultDirect(m1, m2) = MultTranspose(m1, m2)

\* the outcome of an in-place kernel, as the call reports it
Reported(r) == IF r.ok THEN RetUnit ELSE Panic

\* both operands hold their N elements
WellFormed == Len(a.data) = N /\ Len(b.data) = N

\* C3: for a and b of N elements each, a of either variant, a + b, a - b,
\* a * b return what add_vector, sub_vector, entrywise return, and a += b,
\* a -= b, a *= b leave in a what add_vector_mut, sub_vector_mut,
\* entrywise_mut leave in it.
C3_OperatorsMirrorNamed ==
    [][ WellFormed =>
        /\ op' = "add" => res' = Vector_add_vector(a, b)
        /\ op' = "sub" => res' = Vector_sub_vector(a, b)
        /\ op' = "mul" => res' = Vector_entrywise(a, b)
        /\ op' = "add_assign" =>
              /\ a'.data = Vector_add_vector_mut(a, b).data
              /\ res' = Reported(Vector_add_vector_mut(a, b))
        /\ op' = "sub_assign" =>
              /\ a'.data = Vector_sub_vector_mut(a, b).data
              /\ res' = Reported(Vector_sub_vector_mut(a, b))
        /\ op' = "mul_assign" =>
              /\ a'.data = Vector_entrywise_mut(a, b).data
              /\ res' = Reported(Vector_entrywise_mut(a, b))
      ]_vars

\* C4: scalar, add_vector, sub_vector, entrywise, cross, +, -, * return the
\* variant of self whatever the variant of the right-hand side, and no
\* in-place operation changes the variant of self.
C4_VariantPreserved ==
    [][ /\ (op' \in ReturningOps /\ res'.st = "ok") => res'.tag = a.tag
        /\ op' \in InPlaceOps => a'.tag = a.tag
      ]_vars

\* an operation on a Large self with a Small right-hand side has returned
C4_Witness ==
    /\ op = "add_vector"
    /\ res.st = "ok"
    /\ a.tag = "Large"
    /\ b.tag = "Small"
    /\ res.tag = "Large"

\* C5: every Large vector holds exactly N elements, after any constructor
\* and any operation.
C5_LargeHoldsN ==
    /\ a.tag = "Large" => Len(a.data) = N
    /\ b.tag = "Large" => Len(b.data) = N
    /\ (res.st = "ok" /\ res.tag = "Large") => Len(res.data) = N

\* C6: collecting an iterator into a Vector returns the N items in order
\* when it yields exactly N items and panics when it yields fewer or more.
C6_FromIterChecksLength ==
    op = "from_iter" =>
        IF Len(arg.src) = N
        THEN res.st = "ok" /\ res.data = arg.src
        ELSE res.st = "panic"

\* C7: Vector::new on a Vec of length L returns the Small vector of the same
\* elements in the same order when L = N and panics when L # N.
C7_NewChecksLength ==
    op = "new" =>
        IF Len(arg.src) = N
        THEN res.st = "ok" /\ res.tag = "Small" /\ res.data = arg.src
        ELSE res.st = "panic"

\* Vector::new was handed a Vec of N + 1 elements and panicked
C7_Witness ==
    /\ op = "new"
    /\ Len(arg.src) = N + 1
    /\ res.st = "panic"

\* C8: Vector::new_large on a source whose length differs from N panics.
C8_NewLargeChecksLength ==
    (op = "new_large" /\ Len(arg.src) # N) => res.st = "panic"

\* C9: a == b returns, and returns true exactly when a[i] = b[i] for every
\* i in 0..N-1, whatever variant either side holds and whatever constructor
\* made it.
C9_EqElementwise ==
    op = "eq" =>
        /\ res.st = "ok"
        /\ res.flag <=> \A i \in 1..N :
                            /\ i <= Len(a.data)
                            /\ i <= Len(b.data)
                            /\ a.data[i] = b.data[i]

\* (a1 b2 - a2 b1, a2 b0 - a0 b2, a0 b1 - a1 b0), in the integers
CrossFormula(x, y) ==
    << x[2] * y[3] - x[3] * y[2],
       x[3] * y[1] - x[1] * y[3],
       x[1] * y[2] - x[2] * y[1] >>

\* every product and every difference of the formula is a value of T
CrossFits(x, y) ==
    /\ \A i \in 1..3 : \A j \in 1..3 : i # j => InT(x[i] * y[j])
    /\ \A i \in 1..3 : InT(CrossFormula(x, y)[i])

\* C10: for 3-element a and b, a in either storage, cross returns the three
\* components of the formula: exactly when every intermediate value is a
\* value of T, reduced to T when the build wraps on overflow; it panics only
\* on an overflow the build checks.
C10_CrossFormula ==
    (op = "cross" /\ N = 3 /\ Len(a.data) = 3 /\ Len(b.data) = 3) =>
        /\ res.st = "ok" <=> (CrossFits(a.data, b.data) \/ ~checks)
        /\ res.st = "ok" =>
              /\ res.tag = a.tag
              /\ Len(res.data) = 3
              /\ \A i \in 1..3 :
                    res.data[i] = Wrap(CrossFormula(a.data, b.data)[i])
        /\ CrossFits(a.data, b.data) => res.data = CrossFormula(a.data, b.data)

\* cross of two Large 3-element vectors has returned a non-zero product
C10_Witness ==
    /\ op = "cross"
    /\ N = 3
    /\ a.tag = "Large"
    /\ Len(a.data) = 3
    /\ Len(b.data) = 3
    /\ CrossFits(a.data, b.data)
    /\ res.st = "ok"
    /\ res.data # <<0, 0, 0>>

\* C11: on an arity N other than 3, cross and cross_mut panic, on either
\* variant of self and of the right-hand side: cross returns no vector, and
\* the vector cross_mut was called on holds the elements it held before.
C11_CrossChecksArity ==
    (op \in {"cross", "cross_mut"} /\ N # 3) =>
        /\ res.st = "panic"
        /\ op = "cross_mut" => res.data = a.data

\* cross_mut on a Large vector of arity 2 has panicked
C11_Witness ==
    /\ op = "cross_mut"
    /\ N = 2
    /\ a.tag = "Large"
    /\ res.st = "panic"

\* a call of cross or of b.cross(a).scalar(-1) has recorded its outcome
CrossLawActed ==
    /\ op \in {"cross", "cross_negated"}
    /\ res = IF op = "cross" THEN Vector_cross(a, b) ELSE CrossNegated(a, b)

\* x == y, both returned
SameVector(x, y) ==
    /\ x.st = "ok"
    /\ y.st = "ok"
    /\ Vector_eq(AsVector(x), AsVector(y)) = RetBool(TRUE)

\* C12 as stated: for 3-element a and b, whenever a.cross(b) returns,
\* b.cross(a).scalar(-1) returns a vector equal to it.
C12_AntiCommutative ==
    (CrossLawActed /\ Vector_cross(a, b).st = "ok") =>
        SameVector(Vector_cross(a, b), CrossNegated(a, b))

\* C12 amended: for 3-element a and b, whenever b.cross(a).scalar(-1)
\* returns, a.cross(b) returns a vector equal to it; when a.cross(b) returns,
\* b.cross(a).scalar(-1) panics exactly when overflow is checked and a
\* component of a.cross(b) is the minimum of T, whose negation is no value
\* of T.
C12_AntiCommutativeUpToMin ==
    CrossLawActed =>
        /\ CrossNegated(a, b).st = "ok" =>
              SameVector(Vector_cross(a, b), CrossNegated(a, b))
        /\ Vector_cross(a, b).st = "ok" =>
              (CrossNegated(a, b).st = "panic" <=>
                  (checks /\ \E i \in 1..3 : Vector_cross(a, b).data[i] = TMin))

\* b.cross(a).scalar(-1) has returned a non-zero vector, a and b of
\* different variants
C12_Witness ==
    /\ op = "cross_negated"
    /\ res.st = "ok"
    /\ a.tag # b.tag
    /\ res.data # <<0, 0, 0>>

\* the kernels that come in a returning and an in-place form
PairedKernels == {"scalar", "add_vector", "sub_vector", "entrywise", "cross"}

\* the clone x' of x after x'.o_mut(y), or x'.o_mut(f)
InPlaceForm(o, x, y, f) ==
    CASE o = "scalar" -> CloneAfter(x, Vector_scalar_mut(x, f))
      [] o = "add_vector" -> CloneAfter(x, Vector_add_vector_mut(x, y))
      [] o = "sub_vector" -> CloneAfter(x, Vector_sub_vector_mut(x, y))
      [] o = "entrywise" -> CloneAfter(x, Vector_entrywise_mut(x, y))
      [] o = "cross" -> CloneAfter(x, Vector_cross_mut(x, y))

\* the clone y holds, index by index, the elements of the returned vector x
HoldsElementsOf(y, x) ==
    /\ y.st = "ok"
    /\ \A i \in 1..Len(x.data) : i <= Len(y.data) /\ y.data[i] = x.data[i]

\* C13: whenever x.op(y) returns, for op among scalar, add_vector,
\* sub_vector, entrywise and cross and x of either variant, op_mut on a clone
\* of x returns and leaves in the clone the elements x.op(y) returned.
C13_MutAgreesWithImmutable ==
    (op \in PairedKernels /\ res.st = "ok") =>
        HoldsElementsOf(InPlaceForm(op, a, b, arg.factor), res)

\* C14: a.add_vector(b) returns exactly when b.add_vector(a) does, for a and
\* b of any mix of variants, and the two vectors returned are equal under ==.
C14_AddCommutes ==
    op = "add_vector" =>
        /\ res.st = "ok" <=> Vector_add_vector(b, a).st = "ok"
        /\ res.st = "ok" => SameVector(res, Vector_add_vector(b, a))

\* a Large a added to a different Small b has returned
C14_Witness ==
    /\ op = "add_vector"
    /\ res.st = "ok"
    /\ a.tag = "Large"
    /\ b.tag = "Small"
    /\ a.data # b.data

C16_ScalarIdentityAndZero ==
    /\ (op = "scalar" /\ arg.factor = 1) => SameVector(res, RetVec(a))
    /\ (op = "scalar" /\ arg.factor = 0) => SameVector(res, RetVec(Small(Zeros(N))))

\* C17: a.dot(b) and b.dot(a) have the same outcome, for a and b of any mix
\* of variants: both panic, or both return the same integer.
C17_DotCommutes ==
    op = "dot" => res = Vector_dot(b, a)

\* the dot product of a Small a and a different Large b has returned a
\* non-zero integer
C17_Witness ==
    /\ op = "dot"
    /\ res.st = "ok"
    /\ res.val # 0
    /\ a.tag = "Small"
    /\ b.tag = "Large"
    /\ a.data # b.data

RECURSIVE DotSum(_, _, _)
\* the sum over i in 1..n of x[i] * y[i], in the integers
DotSum(x, y, n) ==
    IF n = 0 THEN 0 ELSE DotSum(x, y, n - 1) + x[n] * y[n]

\* C18: whenever a.dot(b) returns, the integer it returns is the sum over i
\* in 0..N-1 of a[i] * b[i], in the integers.
C18_DotIsTheSum ==
    (op = "dot" /\ res.st = "ok") => res.val = DotSum(a.data, b.data, N)

\* the operator on T of an elementwise kernel
OpOf(o) ==
    CASE o = "add_vector" -> "add"
      [] o = "sub_vector" -> "sub"
      [] o = "entrywise" -> "mul"

\* C19: whenever add_vector, sub_vector or entrywise returns r, r has
\* exactly N elements and r[i] is a[i] + b[i], a[i] - b[i], a[i] * b[i]
\* respectively for every i in 0..N-1: the exact value when it is a value of
\* T, and its reduction into T when overflow wraps.  On a and b of N
\* elements each the call returns unless an overflow is checked.
C19_Elementwise ==
    op \in {"add_vector", "sub_vector", "entrywise"} =>
        /\ res.st = "ok" =>
              /\ Len(res.data) = N
              /\ \A i \in 1..N :
                    /\ res.data[i] = Wrap(Exact(OpOf(op), a.data[i], b.data[i]))
                    /\ (checks \/ InT(Exact(OpOf(op), a.data[i], b.data[i]))) =>
                          res.data[i] = Exact(OpOf(op), a.data[i], b.data[i])
        /\ WellFormed =>
              (res.st = "ok" <=>
                  (~checks \/ \A i \in 1..N :
                                  InT(Exact(OpOf(op), a.data[i], b.data[i]))))

\* entrywise of a Small a and a Large b has returned products that are not
\* all equal
C19_Witness ==
    /\ op = "entrywise"
    /\ res.st = "ok"
    /\ a.tag = "Small"
    /\ b.tag = "Large"
    /\ \E i \in 1..N : res.data[i] # res.data[1]

\* the matrix of m rows of N cells, cell [i][j] the product x[i] * y[j] in T
OuterProduct(x, y, m) ==
    [i \in 1..m |-> [j \in 1..N |-> Wrap(x[i] * y[j])]]

\* the rows of a returned matrix, as sequences of elements
RowsOf(r) == [i \in 1..Len(r.rows) |-> r.rows[i].data]

\* C20 as stated: for a and b of N elements each and every row count M,
\* tensor_prod returns the M x N matrix of the products self[i] * other[j],
\* unless an overflow is checked.
C20_TensorForEveryM ==
    (/\ op = "tensor_prod"
     /\ WellFormed
     /\ ~checks \/ \A i \in 1..N : \A j \in 1..N : InT(a.data[i] * b.data[j])) =>
        /\ mres.st = "ok"
        /\ RowsOf(mres) = OuterProduct(a.data, b.data, M)

\* C20 amended: tensor_prod returns exactly when M is at most the number of
\* elements self holds, other holds at least N elements and no product of
\* the M x N cells overflows under overflow checks; it then returns the
\* M x N matrix of the products self[i] * other[j], i in 0..M-1, j in
\* 0..N-1, in T.  For M beyond the elements of self the call panics.
C20_TensorUpToLength ==
    op = "tensor_prod" =>
        /\ mres.st = "ok" <=>
              /\ M <= Len(a.data)
              /\ N <= Len(b.data)
              /\ ~checks \/ \A i \in 1..M : \A j \in 1..N : InT(a.data[i] * b.data[j])
        /\ mres.st = "ok" => RowsOf(mres) = OuterProduct(a.data, b.data, M)
        /\ M > Len(a.data) => mres.st = "panic"

\* tensor_prod with fewer rows than self has elements has returned a
\* matrix that is not zero
C20_Witness ==
    /\ op = "tensor_prod"
    /\ mres.st = "ok"
    /\ M < N
    /\ Len(a.data) = N
    /\ \E i \in 1..M : \E j \in 1..N : mres.rows[i].data[j] # 0

RECURSIVE SumOfSquares(_, _)
\* the sum of the squares of the first n elements of d, in the integers
SumOfSquares(d, n) ==
    IF n = 0 THEN 0 ELSE SumOfSquares(d, n - 1) + d[n] * d[n]

IterKinds == {"into_iter", "iter", "iter_mut"}

\* C22: a new iterator starts at index 0 with nothing handed out; while its
\* cursor is below N, next() returns the element at the cursor and moves the
\* cursor one up, so that the items are those of indices 0..N-1 in order;
\* with the cursor at N every next() returns None and leaves the cursor,
\* which never exceeds N.
C22_IterationContract ==
    [][ /\ op' \in IterKinds => (it'.current = 0 /\ it'.out = <<>>)
        /\ op' = "next" =>
              /\ it'.current <= N
              /\ IF it.current < N
                 THEN /\ InRange(a.data, it.current)
                      /\ res' = RetSome(a.data[it.current + 1])
                      /\ it'.current = it.current + 1
                      /\ it'.out = Append(it.out, it.current)
                 ELSE /\ res' = RetNone
                      /\ it' = it
      ]_vars

\* C30: every index that next() of an IterMut has handed out is below the
\* number of elements the vector holds, and no index is handed out twice.
C30_IterMutInBounds ==
    it.kind = "iter_mut" =>
        \A k \in 1..Len(it.out) :
            /\ it.out[k] < Len(a.data)
            /\ \A j \in 1..Len(it.out) : it.out[j] = it.out[k] => j = k

\* C28: on a vector of arity N, a read or a store at idx < N succeeds, on
\* the element of that index, and an access at idx >= N panics; for Small
\* and Large alike.
C28_IndexChecksN ==
    op \in {"index", "index_mut"} =>
        IF arg.factor < N
        THEN /\ res.st = "ok"
             /\ InRange(a.data, arg.factor)
             /\ op = "index" => res.val = a.data[arg.factor + 1]
             /\ op = "index_mut" =>
                   res.data = [a.data EXCEPT ![arg.factor + 1] = arg.src[1]]
        ELSE res.st = "panic"

\* the in-place kernels of MathVector
InPlaceKernels ==
    {"scalar_mut", "add_vector_mut", "sub_vector_mut", "entrywise_mut", "cross_mut"}

\* C23: whenever scalar_mut, add_vector_mut, sub_vector_mut, entrywise_mut
\* or cross_mut panics, every element of self has the value it had before
\* the call.
C23_AtomicOnFailure ==
    (op \in InPlaceKernels /\ res.st = "panic") => res.data = a.data

\* C24: scalar(factor) and scalar_mut(factor) panic whenever factor is no
\* value of T, whatever the variant and the number of elements held; for a
\* factor that is a value of T, whenever the call returns, every element
\* held has been multiplied by the factor.
C24_ScalarChecksFactor ==
    op \in {"scalar", "scalar_mut"} =>
        IF ~InT(arg.factor)
        THEN res.st = "panic"
        ELSE res.st = "ok" =>
                /\ Len(res.data) = Len(a.data)
                /\ \A i \in 1..Len(a.data) :
                      res.data[i] = Wrap(a.data[i] * arg.factor)

\* a returned value without the variant it is wrapped in
Untagged(r) == [r EXCEPT !.tag = ""]

\* the outcome of the call o, with inputs g and row count m, on self v and
\* right-hand side r: the elements and the integer returned, or the panic
OutcomeOn(o, v, r, g, m) ==
    CASE o = "scalar" -> Untagged(Vector_scalar(v, g.factor))
      [] o = "scalar_mut" -> Vector_scalar_mut(v, g.factor)
      [] o = "dot" -> Vector_dot(v, r)
      [] o = "add_vector" -> Untagged(Vector_add_vector(v, r))
      [] o = "add_vector_mut" -> Vector_add_vector_mut(v, r)
      [] o = "sub_vector" -> Untagged(Vector_sub_vector(v, r))
      [] o = "sub_vector_mut" -> Vector_sub_vector_mut(v, r)
      [] o = "entrywise" -> Untagged(Vector_entrywise(v, r))
      [] o = "entrywise_mut" -> Vector_entrywise_mut(v, r)
      [] o = "cross" -> Untagged(Vector_cross(v, r))
      [] o = "cross_mut" -> Vector_cross_mut(v, r)
      [] o = "tensor_prod" -> Vector_tensor_prod(v, r, m)
      [] o = "magnitude" -> Vector_magnitude(v)
      [] o = "sum" -> Vector_sum(v)
      [] OTHER -> NoRes

\* C26: for every call of scalar, dot, add_vector, sub_vector, entrywise,
\* cross, tensor_prod, magnitude, sum or an in-place form on a self of N
\* elements, the call on the Small vector of these elements and the call on
\* the Large vector of them have the same outcome: both panic, or both
\* return the same elements or the same integer.
C26_StrategiesAgree ==
    (pc = "done" /\ Len(a.data) = N) =>
        OutcomeOn(op, Small(a.data), b, arg, M) = OutcomeOn(op, Large(a.data), b, arg, M)

C27_MatrixSumElementwise ==
    [][ op' \in {"matrix_add", "matrix_subtract"} =>
        /\ m1' = m1
        /\ m2' = m2
        /\ mres'.st = "ok" =>
              /\ Len(mres'.rows) = M
              /\ \A r \in 1..M :
                    /\ Len(mres'.rows[r].data) = N
                    /\ \A c \in 1..N :
                          mres'.rows[r].data[c] =
                              IF op' = "matrix_add"
                              THEN m1[r].data[c] + m2[r].data[c]
                              ELSE m1[r].data[c] - m2[r].data[c]
      ]_vars

\* the difference of two 1 x 2 matrices has been returned, with a negative
\* element
C27_Witness ==
    /\ op = "matrix_subtract"
    /\ mres.st = "ok"
    /\ M = 1
    /\ N = 2
    /\ m1 = Matrix_new(<<(<<1, 2>>)>>)
    /\ m2 = Matrix_new(<<(<<2, 1>>)>>)
    /\ mres.rows = Matrix_new(<<(<<-1, 1>>)>>)

\* every read of the direct branch of mult is of an index its operand holds
DirectReadsInRange ==
    \A row \in 0..(M - 1) : \A col \in 0..(P - 1) : \A index \in 0..(P - 1) :
        /\ InRange(m1, row)
        /\ InRange(m1[row + 1].data, index)
        /\ InRange(m2, index)
        /\ InRange(m2[index + 1].data, col)

\* C29: for every M, N, P >= 1, every read self[row][index] and
\* matrix2[index][col] of a call of mult is of an index that the row or the
\* matrix read holds.
C29_MultAccessesInRange ==
    (op = "mult" /\ P * M < Threshold) => DirectReadsInRange
====
